---------------------------- MODULE Spec2Model ----------------------------
(***************************************************************************)
(* A model of github.com/maruel/huggingface (huggingface.go): the cache    *)
(* of one model repository on disk (refs/, blobs/, snapshots/), the        *)
(* operations EnsureFile, EnsureSnapshot and resolveCommit on it, and the  *)
(* retrying HTTP primitive authGet they all go through.                    *)
(*                                                                         *)
(* Strings are sequences of one-character strings, so that the slicing,    *)
(* trimming and regular-expression matching of the code are computed and   *)
(* not assumed.                                                            *)
(***************************************************************************)
EXTENDS Integers, Sequences, FiniteSets, TLC

VARIABLES
    refs,      \* refs/<revision> of the repository: file content, or Absent
    blobs,     \* blobs/<etag>: "absent", "partial" or "complete"
    snaps,     \* snapshots/<commit>/<file>: the blob the symlink points to (and, as
               \* history, the etag its probe reported)
    returned,  \* history: the path the first successful EnsureFile of a ref returned
    last,      \* observation of the last public call: arguments, results, requests
    fetch,     \* the authGet call in progress (its loop counter, requests, sleep)
    probe,     \* observation of the last call whose inputs the properties need
               \* whole: the answer probed, the body decoded, the string parsed
    tokenFile, \* the token file of the hub home directory: its content, or Absent
    race       \* processes that run EnsureFile or resolveCommit step by step on
               \* one file of one revision, and the files they share

vars == <<refs, blobs, snaps, returned, last, fetch, probe, tokenFile, race>>

-----------------------------------------------------------------------------
(* Strings.                                                                *)

Rep(c, n) == [k \in 1..n |-> c]

\* strings.IndexByte: the 0-based index of the first c in s, or -1.
RECURSIVE IndexFrom(_, _, _)
IndexFrom(s, c, k) ==
    IF k > Len(s) THEN -1 ELSE IF s[k] = c THEN k - 1 ELSE IndexFrom(s, c, k + 1)
IndexByte(s, c) == IndexFrom(s, c, 1)

\* Go's s[lo:hi] and s[lo:], with 0-based bounds.
Slice(s, lo, hi) == SubSeq(s, lo + 1, hi)
SliceFrom(s, lo) == SubSeq(s, lo + 1, Len(s))

HasPrefix(s, p) == Len(s) >= Len(p) /\ SubSeq(s, 1, Len(p)) = p
TrimPrefix(s, p) == IF HasPrefix(s, p) THEN SliceFrom(s, Len(p)) ELSE s

\* strings.Split(s, sep) for a one-character sep: the parts around each sep.
RECURSIVE Split(_, _)
Split(s, sep) ==
    LET i == IndexByte(s, sep)
    IN  IF i = -1 THEN <<s>> ELSE <<Slice(s, 0, i)>> \o Split(SliceFrom(s, i + 1), sep)

WhiteSpace == {" ", "\n", "\t", "\r"}

\* The first and the last position of s whose character is not in cut
\* (Len(s) + 1 and 0 when there is none).
RECURSIVE FirstKept(_, _, _)
FirstKept(s, cut, k) ==
    IF k > Len(s) \/ s[k] \notin cut THEN k ELSE FirstKept(s, cut, k + 1)
RECURSIVE LastKept(_, _, _)
LastKept(s, cut, k) ==
    IF k < 1 \/ s[k] \notin cut THEN k ELSE LastKept(s, cut, k - 1)

\* bytes.TrimSpace: leading and trailing white space removed.
TrimSpace(s) == SubSeq(s, FirstKept(s, WhiteSpace, 1), LastKept(s, WhiteSpace, Len(s)))

\* strings.Trim(s, cutset): leading and trailing characters of cutset removed.
Trim(s, cutset) == SubSeq(s, FirstKept(s, cutset, 1), LastKept(s, cutset, Len(s)))

HexLower == {"a", "b", "c", "d", "e", "f"}
HexUpper == {"A", "B", "C", "D", "E", "F"}
Digits == {"0", "1", "2", "3", "4", "5", "6", "7", "8", "9"}

SHA1Len == 40
SHA256Len == 64

\* The character class of reSHA1 and reSHA256: [a-fA-F0-9].
HexClass == HexLower \cup HexUpper \cup Digits

\* regexp "^[a-fA-F0-9]{40}$" (no multi-line flag: $ is the end of the text).
reSHA1NoLength(s) == \A k \in 1..Len(s) : s[k] \in HexClass
reSHA1(s) == Len(s) = SHA1Len /\ \A k \in 1..Len(s) : s[k] \in HexClass

\* regexp "^[a-fA-F0-9]{64}$".
reSHA256NoLength(s) == \A k \in 1..Len(s) : s[k] \in HexClass
reSHA256(s) == Len(s) = SHA256Len /\ \A k \in 1..Len(s) : s[k] \in HexClass

-----------------------------------------------------------------------------
(* PackedFileRef: "hf:<author>/<repo>/<revision>/<file>".                  *)

HfPrefix == <<"h", "f", ":">>

MakePackedFileRef(author, repo, revision, file) ==
    HfPrefix \o author \o <<"/">> \o repo \o <<"/">> \o revision \o <<"/">> \o file

RepoID(p) ==
    LET i == IndexByte(p, "/")
    IN  IF i # -1
        THEN LET j == IndexByte(SliceFrom(p, i + 1), "/")
             IN  IF j # -1 THEN TrimPrefix(Slice(p, 0, i + j + 1), HfPrefix) ELSE <<>>
        ELSE <<>>

Author(p) ==
    LET i == IndexByte(p, "/")
    IN  IF i # -1 THEN TrimPrefix(Slice(p, 0, i), HfPrefix) ELSE <<>>

Repo(p) ==
    LET i == IndexByte(p, "/")
    IN  IF i # -1
        THEN LET s == SliceFrom(p, i + 1)
                 j == IndexByte(s, "/")
             IN  IF j # -1 THEN Slice(s, 0, j) ELSE <<>>
        ELSE <<>>

Commitish(p) ==
    LET i == IndexByte(p, "/")
    IN  IF i # -1
        THEN LET s == SliceFrom(p, i + 1)
                 j == IndexByte(s, "/")
             IN  IF j # -1
                 THEN LET t == SliceFrom(s, j + 1)
                          k == IndexByte(t, "/")
                      IN  IF k # -1 THEN Slice(t, 0, k) ELSE <<>>
                 ELSE <<>>
        ELSE <<>>

BasenameLastSegment(p) == LET parts == Split(p, "/") IN parts[Len(parts)]
Basename(p) ==
    LET i == IndexByte(p, "/")
    IN  IF i # -1
        THEN LET s == SliceFrom(p, i + 1)
                 j == IndexByte(s, "/")
             IN  IF j # -1
                 THEN LET t == SliceFrom(s, j + 1)
                          k == IndexByte(t, "/")
                      IN  IF k # -1 THEN SliceFrom(t, k + 1) ELSE <<>>
                 ELSE <<>>
        ELSE <<>>

\* The characters Validate skips before it splits (string(p)[4:]), the
\* parts it asks for, and the length it asks of every part.
ValidateSkip == 4
ValidateMinParts == 4
ValidateMinLen == 3

\* PackedFileRef.Validate: "ok", "err", or "panic" when the slice
\* expression is out of range.
Validate(p) ==
    IF ~HasPrefix(p, HfPrefix) THEN "err"
    ELSE IF Len(p) < ValidateSkip THEN "panic"
    ELSE LET parts == Split(SliceFrom(p, ValidateSkip), "/")
         IN  IF Len(parts) < ValidateMinParts THEN "err"
             ELSE IF Len(parts[3]) = 0 THEN "err"
             ELSE IF \E i \in 1..Len(parts) : Len(parts[i]) < ValidateMinLen THEN "err"
             ELSE "ok"

-----------------------------------------------------------------------------
(* New: the token of the client and the token file.                        *)

TokenPrefix == <<"h", "f", "_">>

\* token != "" && !strings.HasPrefix(token, "hf_") is an error.
TokenValidTrimmed(token) == TrimSpace(token) = <<>> \/ HasPrefix(TrimSpace(token), TokenPrefix)
TokenValid(token) == token = <<>> \/ HasPrefix(token, TokenPrefix)

\* New(arg) with HF_TOKEN = env and the token file tf (its content, or
\* <<"<absent>">>); dirs: os.UserHomeDir and os.MkdirAll succeed; written:
\* os.WriteFile of the token file succeeds.
New(arg, env, tf, dirs, written) ==
    LET absent == <<"<absent>">>
        token == IF arg # <<>> THEN arg
                 ELSE IF env # <<>> THEN env
                 ELSE IF tf # absent THEN TrimSpace(tf)
                 ELSE <<>>
        saves == arg # <<>> /\ tf = absent
        fail(f) == [res |-> "err", token |-> <<>>, tokenFile |-> f]
    IN  IF ~dirs THEN fail(tf)
        ELSE IF saves /\ ~written THEN fail(tf)
        ELSE LET tf2 == IF saves THEN arg ELSE tf
             IN  IF ~TokenValid(token) THEN fail(tf2)
                 ELSE [res |-> "ok", token |-> token, tokenFile |-> tf2]

-----------------------------------------------------------------------------
(* authGet: one authenticated request, retried on 429 and 5xx.             *)

\* The statuses a server answers with; NoResponse is the transport returning
\* no response at all (h.Do gives a nil response and an error).
NoResponse == 0
Statuses == {200, 302, 401, 404, 429, 500, 503, 599, 600}
Answers == Statuses \cup {NoResponse}

MaxAttempts == 10

\* The statuses that are slept on and retried: 429 and 5xx.
RetryableAny4xx(status) == status >= 400 /\ status < 600 /\ status # 401
Retryable(status) == status = 429 \/ (status >= 500 /\ status < 600)

\* The state of the loop before its first iteration.
AuthGetStart(token) ==
    [i |-> 0, requests |-> 0, slept |-> 0, retried |-> 0, token |-> token,
     status |-> NoResponse, done |-> FALSE, res |-> "running"]

\* The loop condition, i < 10.
LoopContinuesOffByOne(i) == i <= MaxAttempts
LoopContinues(i) == i < MaxAttempts

\* time.Sleep(time.Duration(i+1) * time.Second), in seconds.
BackoffZeroBased(i) == i
Backoff(i) == i + 1

\* The error of a 401: its text depends on whether a token was given.
Err401(token) == IF token THEN "err401_check_token" ELSE "err401_token_required"

\* One iteration of the loop, the server answering `answer` to h.Do(req).
\* A nil response is dereferenced (resp.StatusCode): the goroutine panics.
AuthGetStep(st, answer) ==
    LET sent == [st EXCEPT !.requests = st.requests + 1, !.status = answer]
    IN  IF answer = NoResponse
        THEN [sent EXCEPT !.done = TRUE, !.res = "panic"]
        ELSE IF answer >= 400
        THEN IF answer = 401
             THEN [sent EXCEPT !.done = TRUE, !.res = Err401(st.token)]
             ELSE IF Retryable(answer)
             THEN LET next == [sent EXCEPT !.slept = st.slept + Backoff(st.i),
                                           !.retried = st.retried + 1,
                                           !.i = st.i + 1]
                  IN  IF LoopContinues(next.i) THEN next
                      ELSE [next EXCEPT !.done = TRUE, !.res = "err_retrying"]
             ELSE [sent EXCEPT !.done = TRUE, !.res = "err_status"]
        ELSE [sent EXCEPT !.done = TRUE, !.res = "ok"]

\* The whole call against a server that answers script[1], script[2], ...
RECURSIVE AuthGetRun(_, _)
AuthGetRun(st, script) ==
    IF st.done \/ script = <<>> THEN st
    ELSE AuthGetRun(AuthGetStep(st, Head(script)), Tail(script))

authGet(token, script) == AuthGetRun(AuthGetStart(token), script)

-----------------------------------------------------------------------------
(* What the remote may answer.                                             *)

\* The number of distinct well-formed lowercase commit ids and etags the
\* remote may report.
MaxCommits == 1
MaxTags == 1

HexDigitOf(k) == <<"a", "b", "c", "d", "e", "f">>[((k - 1) % 6) + 1]
DecDigitOf(k) == <<"1", "2", "3", "4", "5", "6", "7", "8", "9">>[((k - 1) % 9) + 1]

CommitOf(k) == Rep(HexDigitOf(k), SHA1Len)
TagOf(k) == Rep(DecDigitOf(k), SHA256Len)

ShaUpper == Rep("a", SHA1Len - 1) \o <<"F">>     \* upper-case hex digit in it
ShaShort == Rep("a", SHA1Len - 1)
ShaLong == Rep("a", SHA1Len + 1)
ShaNotHex == Rep("a", SHA1Len - 1) \o <<"g">>
ShaNewline == CommitOf(1) \o <<"\n">>
NoString == <<>>

\* The "sha" of a metadata response (empty: the field is not in the body).
Shas ==
    {CommitOf(k) : k \in 1..MaxCommits}
        \cup {ShaUpper, ShaShort, ShaLong, ShaNotHex, ShaNewline, NoString}

\* A metadata response body: its sha, and whether it holds a field that
\* modelInfoResponse does not declare.
Bodies ==
    {[sha |-> s, unknown |-> FALSE] : s \in Shas}
        \cup {[sha |-> CommitOf(1), unknown |-> TRUE]}

Quoted(s) == <<"\"">> \o s \o <<"\"">>
Weak(s) == <<"W", "/">> \o s

\* The headers of a HEAD answer (NoString: the header is not set).
HeadAnswers ==
    {[commit |-> CommitOf(1), linkedEtag |-> Quoted(TagOf(k)), etag |-> NoString,
      linkedSize |-> <<"5">>, contentLength |-> NoString] : k \in 1..MaxTags}
        \cup
    {[commit |-> CommitOf(1), linkedEtag |-> NoString, etag |-> Weak(Quoted(TagOf(1))),
      linkedSize |-> NoString, contentLength |-> <<"1", "2">>],
     [commit |-> CommitOf(1), linkedEtag |-> NoString, etag |-> Quoted(CommitOf(1)),
      linkedSize |-> <<"5">>, contentLength |-> NoString],
     [commit |-> NoString, linkedEtag |-> Quoted(TagOf(1)), etag |-> NoString,
      linkedSize |-> <<"5">>, contentLength |-> NoString],
     [commit |-> CommitOf(1), linkedEtag |-> Quoted(TagOf(1)), etag |-> NoString,
      linkedSize |-> NoString, contentLength |-> NoString],
     [commit |-> CommitOf(1), linkedEtag |-> Quoted(TagOf(1)), etag |-> NoString,
      linkedSize |-> <<"x">>, contentLength |-> NoString]}

TagUpper == Rep("A", SHA256Len)
TagShort == Rep("1", SHA256Len - 1)

HeadAnswer(commit, linkedEtag, etag, linkedSize, contentLength) ==
    [commit |-> commit, linkedEtag |-> linkedEtag, etag |-> etag,
     linkedSize |-> linkedSize, contentLength |-> contentLength]

\* More HEAD answers: etags in upper case, too short, unquoted behind a weak
\* prefix, missing; X-Linked-Etag and X-Linked-Size set together with Etag
\* and Content-Length; sizes with a sign, of zero, empty.
WideHeadAnswers ==
    HeadAnswers \cup
    {HeadAnswer(CommitOf(1), Quoted(TagUpper), NoString, <<"5">>, NoString),
     HeadAnswer(CommitOf(1), Quoted(TagShort), NoString, <<"5">>, NoString),
     HeadAnswer(CommitOf(1), Weak(TagOf(1)), Quoted(TagShort), <<"7">>, <<"x">>),
     HeadAnswer(CommitOf(1), NoString, NoString, <<"5">>, NoString),
     HeadAnswer(CommitOf(1), Quoted(TagOf(1)), NoString, <<"-", "5">>, NoString),
     HeadAnswer(CommitOf(1), Quoted(TagOf(1)), NoString, <<"+", "5">>, NoString),
     HeadAnswer(CommitOf(1), Quoted(TagOf(1)), NoString, <<"-">>, <<"5">>),
     HeadAnswer(CommitOf(1), Quoted(TagOf(1)), NoString, NoString, <<"0">>)}

\* What the server answers to the requests of one authGet call, in order:
\* to the metadata GET, and to the HEAD and the GET of a file.
MetaScripts == {<<200>>, <<503, 200>>, <<404>>, <<NoResponse>>}
FileScripts == {<<200>>, <<404>>, <<NoResponse>>}

-----------------------------------------------------------------------------
(* Metadata and file information.                                          *)

\* The client of the model holds a token (c.token is not empty).
ClientToken == TRUE

\* The outcome of a call in terms its caller branches on.
Outcome(res) == IF res = "ok" THEN "ok" ELSE IF res = "panic" THEN "panic" ELSE "err"

\* json.Decoder with DisallowUnknownFields: an undeclared field is an error.
Decodes(body) == ~body.unknown

\* GetModelInfo: GET /api/models/<repo>/revision/<ref>, decoded into m.
GetModelInfo(script, body) ==
    LET a == authGet(ClientToken, script)
    IN  IF a.res # "ok" THEN [res |-> Outcome(a.res), sha |-> NoString, requests |-> a.requests]
        ELSE IF ~Decodes(body) THEN [res |-> "err", sha |-> NoString, requests |-> a.requests]
        ELSE [res |-> "ok", sha |-> body.sha, requests |-> a.requests]

\* The value of a string of decimal digits; -1: not one.
RECURSIVE ParseDigits(_, _)
ParseDigits(s, acc) ==
    IF s = <<>> THEN acc
    ELSE IF Head(s) \notin Digits THEN -1
    ELSE ParseDigits(Tail(s),
                     acc * 10 + (CHOOSE d \in 0..9 :
                                   <<"0", "1", "2", "3", "4", "5", "6", "7", "8", "9">>[d + 1] = Head(s)))

\* A metadata response with the fields GetModelInfo copies: siblings (a list
\* of records with rfilename), safetensors.parameters (a map from tensor type
\* to count) and safetensors.total, cardData.base_model, cardData.license.
Body(sha, unknown, siblings, parameters, total, baseModel, license) ==
    [sha |-> sha, unknown |-> unknown, siblings |-> siblings, parameters |-> parameters,
     total |-> total, baseModel |-> baseModel, license |-> license]

Sibling(name) == [rfilename |-> name]

SiblingLists ==
    {<<>>, <<Sibling("b.bin"), Sibling("a.json"), Sibling("b.bin")>>}

\* safetensors of a response: parameters and total.
Tensors ==
    {[parameters |-> <<>>, total |-> 0],
     [parameters |-> <<>>, total |-> 9],
     [parameters |-> ("BF16" :> 5), total |-> 9],
     [parameters |-> ("BF16" :> 5 @@ "F32" :> 7 @@ "I8" :> 2), total |-> 14],
     [parameters |-> ("BF16" :> 7 @@ "F32" :> 7), total |-> 0],
     [parameters |-> ("BF16" :> 0 @@ "F32" :> 0 - 3), total |-> 4]}

BaseModels == {NoString, <<"o", "/", "b">>, <<"o", "/", "b", "/", "c">>}

Licenses == {NoString, <<"m", "i", "t">>}

WideBodies ==
    {Body(CommitOf(1), FALSE, sib, t.parameters, t.total, base, lic) :
        sib \in SiblingLists, t \in Tensors, base \in BaseModels, lic \in {NoString}}
        \cup {Body(CommitOf(1), FALSE, <<>>, <<>>, 0, NoString, lic) : lic \in Licenses}
        \cup {Body(CommitOf(1), TRUE, <<Sibling("a.json")>>, ("BF16" :> 5), 9, NoString, NoString)}

\* The answers to a metadata request: a status below 400 with one of the
\* bodies, or a script (with a retry, or one that makes authGet fail) and the
\* body of an empty repository.
MetaAnswers ==
    {[script |-> <<200>>, body |-> b] : b \in WideBodies}
        \cup {[script |-> sc, body |-> Body(CommitOf(1), FALSE, <<>>, <<>>, 0, NoString, NoString)] :
                sc \in MetaScripts}

\* A Model with only its ModelRef set.
NoUpstream == [author |-> NoString, repo |-> NoString]
ZeroModel ==
    [files |-> <<>>, sha |-> NoString, license |-> NoString, upstream |-> NoUpstream,
     tensorType |-> "", numWeights |-> 0]

\* The test of the loop over safetensors.parameters: s > m.NumWeights.
Smaller(s, n) == s < n
Greater(s, n) == s > n

\* for k, s := range r.SafeTensors.Parameters, the keys coming in `order`.
RECURSIVE RangeParameters(_, _, _, _)
RangeParameters(order, parameters, tensorType, numWeights) ==
    IF order = <<>> THEN [tensorType |-> tensorType, numWeights |-> numWeights]
    ELSE LET k == Head(order)
             v == parameters[k]
         IN  IF Greater(v, numWeights)
             THEN RangeParameters(Tail(order), parameters, k, v)
             ELSE RangeParameters(Tail(order), parameters, tensorType, numWeights)

\* The orders in which range may give the keys of a map: all of them.
Orders(keys) ==
    {o \in [1..Cardinality(keys) -> keys] :
        \A i \in DOMAIN o, j \in DOMAIN o : i # j => o[i] # o[j]}

\* The assignments to m after the response r was decoded.
FillModel(m, r, order) ==
    LET parts == Split(r.baseModel, "/")
        scan == RangeParameters(order, r.parameters, m.tensorType, m.numWeights)
    IN  [files |-> [i \in 1..Len(r.siblings) |-> r.siblings[i].rfilename],
         sha |-> r.sha,
         license |-> r.license,
         upstream |-> IF Len(parts) = 2 THEN [author |-> parts[1], repo |-> parts[2]]
                      ELSE m.upstream,
         tensorType |-> scan.tensorType,
         numWeights |-> IF scan.numWeights = 0 THEN r.total ELSE scan.numWeights]

\* GetModelInfo(m, ref): what it returns and leaves in m, over the orders of
\* the range loop.
GetModelInfoInto(m, script, body) ==
    LET g == GetModelInfo(script, body)
    IN  IF g.res # "ok" THEN {[res |-> g.res, m |-> m]}
        ELSE {[res |-> "ok", m |-> FillModel(m, body, order)] :
                order \in Orders(DOMAIN body.parameters)}

\* strconv.ParseInt(s, 10, 64): an optional sign, then one decimal digit or
\* more (the strings of the model stay far below the range of an int64).
ParseInt(s) ==
    LET signed == s # <<>> /\ Head(s) \in {"+", "-"}
        digits == IF signed THEN Tail(s) ELSE s
        n == IF digits = <<>> THEN -1 ELSE ParseDigits(digits, 0)
    IN  IF n < 0 THEN [ok |-> FALSE, value |-> 0]
        ELSE [ok |-> TRUE, value |-> IF Head(s) = "-" THEN 0 - n ELSE n]

\* GetFileInfo: HEAD <repo>/resolve/<commit>/<file>, redirects not followed.
GetFileInfo(script, hdr) ==
    LET a == authGet(ClientToken, script)
        raw == IF hdr.linkedEtag = NoString THEN hdr.etag ELSE hdr.linkedEtag
        etag == Trim(TrimPrefix(raw, <<"W", "/">>), {"\""})
        sizeStr == IF hdr.linkedSize = NoString THEN hdr.contentLength ELSE hdr.linkedSize
        fail(r) == [res |-> r, commit |-> NoString, etag |-> NoString, size |-> 0,
                    requests |-> a.requests]
    IN  IF a.res # "ok" THEN fail(Outcome(a.res))
        ELSE IF hdr.commit = NoString THEN fail("err")
        ELSE IF ~reSHA256(etag) THEN fail("err")
        ELSE IF sizeStr = NoString THEN fail("err")
        ELSE IF ~ParseInt(sizeStr).ok THEN fail("err")
        ELSE [res |-> "ok", commit |-> hdr.commit, etag |-> etag,
              size |-> ParseInt(sizeStr).value, requests |-> a.requests]

-----------------------------------------------------------------------------
(* The cache directory of the repository.                                  *)

Absent == <<"<absent>">>
NoPath == [commit |-> NoString, file |-> NoString]

\* refs/<rev> names a file directly inside refs/: an empty name or "." is
\* refs/ itself, ".." is the repository directory, and a name with a slash
\* lies in a directory nothing creates.
RefNameOk(rev) ==
    /\ rev # <<>>
    /\ rev \notin {<<".">>, <<".", ".">>}
    /\ \A k \in 1..Len(rev) : rev[k] # "/"

\* os.ReadFile(refs/<rev>): the content, or Absent when the read fails.
ReadRef(rf, rev) == IF RefNameOk(rev) /\ rev \in DOMAIN rf THEN rf[rev] ELSE Absent

BlobState(bl, tag) == IF tag \in DOMAIN bl THEN bl[tag] ELSE "absent"

\* os.Stat(snapshots/<commit>/<file>), which follows the symlink; an empty
\* file name is the snapshot directory itself, which MkdirAll has made.
StatOk(sn, bl, commit, file) ==
    \/ file = <<>>
    \/ /\ <<commit, file>> \in DOMAIN sn
       /\ BlobState(bl, sn[<<commit, file>>].blob) # "absent"

\* os.Symlink(rel, ln) succeeds when ln does not exist and its parent does.
SymlinkOk(sn, commit, file) ==
    /\ file # <<>>
    /\ <<commit, file>> \notin DOMAIN sn
    /\ \A k \in 1..Len(file) : file[k] # "/"

\* The read of refs/<rev> succeeded (c is its content): no call of the remote.
ResolveFromRemoteAlways(rf, rev, c) == FALSE
ResolveFromCache(rf, rev, c) == c # Absent

\* os.WriteFile(refs/<rev>, sha).
WriteRefNever(rf, rev, sha) == rf
WriteRef(rf, rev, sha) == (rev :> sha) @@ rf

\* The commit id in the content of a ref file: string(bytes.TrimSpace(b)).
RefContentUntrimmed(b) == b
RefContent(b) == TrimSpace(b)

\* What GetModelInfo may return, over the answers of the remote.
MetaOutcomes == {GetModelInfo(script, body) : script \in MetaScripts, body \in Bodies}

\* resolveCommit: the commit of a revision, from refs/<rev> or the remote.
\* The set of its possible outcomes, over what the remote may answer.
resolveCommit(rf, rev) ==
    LET b == ReadRef(rf, rev)
        none(r, mc, n) == [res |-> r, commit |-> NoString, meta |-> FALSE, refs |-> rf,
                           metaCalls |-> mc, nMeta |-> n]
    IN  IF ResolveFromCache(rf, rev, b)
        THEN LET c == RefContent(b)
             IN  IF ~reSHA1(c) THEN {none("err", 0, 0)}
                 ELSE {[res |-> "ok", commit |-> c, meta |-> FALSE, refs |-> rf,
                        metaCalls |-> 0, nMeta |-> 0]}
        ELSE { IF g.res # "ok" THEN none(g.res, 1, g.requests)
                   ELSE IF ~reSHA1(g.sha) THEN none("err", 1, g.requests)
                   ELSE IF ~RefNameOk(rev) THEN none("err", 1, g.requests)
                   ELSE [res |-> "ok", commit |-> g.sha, meta |-> TRUE,
                         refs |-> WriteRef(rf, rev, g.sha),
                         metaCalls |-> 1, nMeta |-> g.requests]
               : g \in MetaOutcomes }

\* What the authGet of a file's content may return.
ContentOutcomes == {authGet(ClientToken, script) : script \in FileScripts}

\* DownloadFile: GET the content into dst, created and truncated first.
\* a: what authGet returned; copied: whether io.Copy reaches the end of the body.
DownloadFile(bl, a, tag, copied) ==
    IF a.res # "ok" THEN [res |-> Outcome(a.res), blobs |-> bl, requests |-> a.requests]
        ELSE [res |-> IF copied THEN "ok" ELSE "err",
              blobs |-> (tag :> (IF copied THEN "complete" ELSE "partial")) @@ bl,
              requests |-> a.requests]

\* What a public call leaves behind and reports.
Result(res, path, rc, rf, bl, sn, nHead, nGet, tag) ==
    [res |-> res, path |-> path, rc |-> [x \in {"res", "commit", "meta", "metaCalls", "nMeta"} |-> rc[x]],
     refs |-> rf, blobs |-> bl, snaps |-> sn, nHead |-> nHead, nGet |-> nGet, tag |-> tag]

\* The snapshot entry is there: return it without asking the remote.
SnapshotHitNever(sn, bl, commit, file) == FALSE
SnapshotHit(sn, bl, commit, file) == StatOk(sn, bl, commit, file)

\* The blob name of a probed file: blobs/<etag>.
BlobNamePerCommit(commit, etag) == commit \o etag
BlobName(commit, etag) == etag

\* What GetFileInfo may return, over the answers of the remote.
FileInfoOutcomes == {GetFileInfo(script, hdr) : script \in FileScripts, hdr \in HeadAnswers}

\* EnsureFile, after resolveCommit returned rc without error: the snapshot
\* entry if it is there, else HEAD, GET into blobs/<etag>, and the symlink.
\* infos: what GetFileInfo may return.
EnsureFileResolved(bl, sn, ref, rc, infos) ==
    LET ref2 == MakePackedFileRef(Author(ref), Repo(ref), rc.commit, Basename(ref))
        file == Basename(ref2)
        ln == [commit |-> rc.commit, file |-> file]
    IN  IF SnapshotHit(sn, bl, rc.commit, file)
        THEN {Result("ok", ln, rc, rc.refs, bl, sn, 0, 0, NoString)}
        ELSE UNION {
            IF gi.res # "ok"
            THEN {Result(gi.res, NoPath, rc, rc.refs, bl, sn, gi.requests, 0, NoString)}
            ELSE {
                LET blob == BlobName(rc.commit, gi.etag)
                    dl == DownloadFile(bl, a, blob, copied)
                IN  IF dl.res # "ok"
                    THEN Result(dl.res, NoPath, rc, rc.refs, dl.blobs, sn,
                                gi.requests, dl.requests, gi.etag)
                    ELSE IF ~SymlinkOk(sn, rc.commit, file)
                    THEN Result("err", NoPath, rc, rc.refs, dl.blobs, sn,
                                gi.requests, dl.requests, gi.etag)
                    ELSE Result("ok", ln, rc, rc.refs, dl.blobs,
                                (<<rc.commit, file>> :> [blob |-> blob, etag |-> gi.etag]) @@ sn,
                                gi.requests, dl.requests, gi.etag)
                : a \in ContentOutcomes, copied \in BOOLEAN }
            : gi \in infos }

\* EnsureFile(ref): the set of its possible outcomes, GetFileInfo returning
\* one of infos.
EnsureFileOver(rf, bl, sn, ref, infos) ==
    UNION {
        IF rc.res # "ok"
        THEN {Result(rc.res, NoPath, rc, rc.refs, bl, sn, 0, 0, NoString)}
        ELSE EnsureFileResolved(bl, sn, ref, rc, infos)
        : rc \in resolveCommit(rf, Commitish(ref)) }

\* EnsureFile(ref): the set of its possible outcomes.
EnsureFile(rf, bl, sn, ref) == EnsureFileOver(rf, bl, sn, ref, FileInfoOutcomes)

\* EnsureSnapshot(ref, revision, glob): resolves the commit, then fails with
\* "implement me".
EnsureSnapshot(rf, bl, sn, rev) ==
    { Result(IF rc.res = "panic" THEN "panic" ELSE "err", NoPath, rc, rc.refs, bl, sn,
             0, 0, NoString)
      : rc \in resolveCommit(rf, rev) }

-----------------------------------------------------------------------------
(* The calls made on the cache.                                            *)

AuthorName == <<"a", "u", "t">>
RepoName == <<"r", "e", "p">>
RevMain == <<"m", "a", "i", "n">>
RevDev == <<"d", "e", "v">>
RevPR == <<"p", "r", "/", "1">>
FileW == <<"w">>
FileNested == <<"d", "/", "w">>

\* The references EnsureFile is called with: files of two revisions, a file
\* in a subdirectory, an empty file name, and a reference with no file part.
FileRefs ==
    {MakePackedFileRef(AuthorName, RepoName, rev, file) :
        rev \in {RevMain, RevDev}, file \in {FileW}}
        \cup {MakePackedFileRef(AuthorName, RepoName, RevMain, file) :
                file \in {FileNested, NoString}}
        \cup {HfPrefix \o AuthorName \o <<"/">> \o RepoName \o <<"/">> \o RevMain}

\* The revisions EnsureSnapshot is called with.
SnapshotRevisions == {RevMain, RevDev, RevPR}

NoCall ==
    [op |-> "none", ref |-> NoString, rev |-> NoString, res |-> "none", path |-> NoPath,
     rc |-> [res |-> "none", commit |-> NoString, meta |-> FALSE, metaCalls |-> 0, nMeta |-> 0],
     nHead |-> 0, nGet |-> 0, tag |-> NoString, prior |-> NoPath, refBefore |-> Absent]

NoProbe == [op |-> "none"]
NoRace == [op |-> "none"]

Observed(op, ref, rev, o) ==
    [op |-> op, ref |-> ref, rev |-> rev, res |-> o.res, path |-> o.path, rc |-> o.rc,
     nHead |-> o.nHead, nGet |-> o.nGet, tag |-> o.tag,
     prior |-> IF ref \in DOMAIN returned THEN returned[ref] ELSE NoPath,
     refBefore |-> ReadRef(refs, rev)]

Apply(op, ref, rev, o) ==
    /\ refs' = o.refs
    /\ blobs' = o.blobs
    /\ snaps' = o.snaps
    /\ last' = Observed(op, ref, rev, o)
    /\ returned' = IF op = "EnsureFile" /\ o.res = "ok" /\ ref \notin DOMAIN returned
                   THEN (ref :> o.path) @@ returned
                   ELSE returned
    /\ UNCHANGED <<fetch, tokenFile, race>>

EnsureFileCall ==
    \E ref \in FileRefs :
        \E o \in EnsureFile(refs, blobs, snaps, ref) :
            Apply("EnsureFile", ref, Commitish(ref), o) /\ UNCHANGED probe

EnsureSnapshotCall ==
    \E rev \in SnapshotRevisions :
        \E o \in EnsureSnapshot(refs, blobs, snaps, rev) :
            Apply("EnsureSnapshot", NoString, rev, o) /\ UNCHANGED probe

-----------------------------------------------------------------------------
(* Calls observed with the answer of the remote.                           *)

FileV == <<"v">>

\* The references of the probed EnsureFile calls: two files of one revision.
ProbeRefs == {MakePackedFileRef(AuthorName, RepoName, RevMain, file) : file \in {FileW, FileV}}

\* The headers of an answer that sets none of those GetFileInfo reads.
NoHeaders == HeadAnswer(NoString, NoString, NoString, NoString, NoString)

\* What GetFileInfo returns (out) to each answer of the server: a status
\* below 400 with the headers hdr, or a script that makes authGet fail.
WideProbes ==
    {[hdr |-> hdr, out |-> GetFileInfo(<<200>>, hdr)] : hdr \in WideHeadAnswers}
        \cup {[hdr |-> NoHeaders, out |-> GetFileInfo(script, NoHeaders)] : script \in FileScripts}

\* GetFileInfo(ref), the server answering the headers p.hdr.
GetFileInfoCall ==
    /\ \E p \in WideProbes : probe' = [op |-> "GetFileInfo", hdr |-> p.hdr, out |-> p.out]
    /\ UNCHANGED <<refs, blobs, snaps, returned, last, fetch, tokenFile, race>>

\* EnsureFile(ref), the server answering the headers p.hdr to the HEAD
\* request, when the call gets as far as sending it.
EnsureFileProbe ==
    \E ref \in ProbeRefs, p \in WideProbes :
        \E o \in EnsureFileOver(refs, blobs, snaps, ref, {p.out}) :
            /\ Apply("EnsureFile", ref, Commitish(ref), o)
            /\ probe' = IF o.nHead > 0
                        THEN [op |-> "EnsureFile", hdr |-> p.hdr, out |-> p.out]
                        ELSE [op |-> "EnsureFileNoProbe"]

\* GetModelInfo(m, ref) on a Model that is zero-valued, or is the one the
\* call before filled from a zero-valued one.
GetModelInfoCall ==
    /\ \E m \in {ZeroModel} \cup (IF probe.op = "GetModelInfo" /\ probe.before = ZeroModel
                                   THEN {probe.m} ELSE {}),
          a \in MetaAnswers :
           \E o \in GetModelInfoInto(m, a.script, a.body) :
               probe' = [op |-> "GetModelInfo", before |-> m, body |-> a.body,
                         fetched |-> authGet(ClientToken, a.script).res = "ok",
                         res |-> o.res, m |-> o.m]
    /\ UNCHANGED <<refs, blobs, snaps, returned, last, fetch, tokenFile, race>>

\* The glob arguments of EnsureSnapshot: no pattern, a plain one, one that
\* climbs out of the snapshot, an absolute path, and a climb after a plain
\* pattern.
Globs ==
    {<<>>,
     << <<"*">> >>,
     << <<".", ".", "/", "s">> >>,
     << <<"/", "e", "/", "p">> >>,
     << <<"*">>, <<"d", "/", ".", ".", "/", ".", ".", "/", "s">> >>}

\* EnsureSnapshot(ref, revision, glob): what it returns next to its error is
\* always the nil list.
EnsureSnapshotGlobCall ==
    \E rev \in SnapshotRevisions, glob \in Globs :
        \E o \in EnsureSnapshot(refs, blobs, snaps, rev) :
            /\ Apply("EnsureSnapshot", NoString, rev, o)
            /\ probe' = [op |-> "EnsureSnapshot", glob |-> glob, paths |-> <<>>]

-----------------------------------------------------------------------------
(* Calls that touch no repository cache.                                   *)

\* Authors and repositories: no slash in them.
Names == {NoString, <<"a", "u">>, AuthorName, <<"a", "u", "t", "h">>, HfPrefix}
Revisions == {NoString, <<"v", "1">>, RevMain}
Files == {NoString, FileW, <<"w", "g", "t">>, FileNested, <<"d", "i", "r", "/", "w", "g", "t">>}

\* What a PackedFileRef came out as.
Parsed(ref) ==
    [author |-> Author(ref), repo |-> Repo(ref), commitish |-> Commitish(ref),
     basename |-> Basename(ref), repoID |-> RepoID(ref)]

MakePackedFileRefCall ==
    /\ \E author \in Names, repo \in Names, revision \in Revisions, file \in Files :
           LET ref == MakePackedFileRef(author, repo, revision, file)
           IN  probe' = [op |-> "MakePackedFileRef", author |-> author, repo |-> repo,
                         revision |-> revision, file |-> file, ref |-> ref,
                         got |-> Parsed(ref)]
    /\ UNCHANGED <<refs, blobs, snaps, returned, last, fetch, tokenFile, race>>

\* The strings Validate is called on: references made of the parts above,
\* and strings with no prefix, too few parts, or nothing after the prefix.
RefStrings ==
    {MakePackedFileRef(author, RepoName, revision, file) :
        author \in Names, revision \in Revisions, file \in Files \ {NoString}}
        \cup {NoString, HfPrefix, HfPrefix \o <<"a">>,
              AuthorName \o <<"/">> \o RepoName \o <<"/">> \o RevMain \o <<"/">> \o FileW,
              HfPrefix \o AuthorName \o <<"/">> \o RepoName \o <<"/">> \o RevMain,
              HfPrefix \o <<"/">> \o AuthorName \o <<"/">> \o RepoName \o <<"/">>
                  \o RevMain \o <<"/", "w", "g", "t">>}

ValidateCall ==
    /\ \E p \in RefStrings :
           probe' = [op |-> "Validate", ref |-> p, res |-> Validate(p), got |-> Parsed(p)]
    /\ UNCHANGED <<refs, blobs, snaps, returned, last, fetch, tokenFile, race>>

\* Tokens, as an argument, in HF_TOKEN and in the token file.
Tokens ==
    {NoString, <<"h", "f", "_", "a">>, TokenPrefix, <<"a", "b", "c">>,
     <<" ", "h", "f", "_", "a">>, <<"h", "f", "_", "a", "\n">>}

NewCall ==
    /\ \E arg \in Tokens, env \in Tokens, dirs \in BOOLEAN, written \in BOOLEAN :
           LET o == New(arg, env, tokenFile, dirs, written)
           IN  /\ tokenFile' = o.tokenFile
               /\ probe' = [op |-> "New", arg |-> arg, env |-> env, fileBefore |-> tokenFile,
                            res |-> o.res, token |-> o.token]
    /\ UNCHANGED <<refs, blobs, snaps, returned, last, fetch, race>>

-----------------------------------------------------------------------------
(* The state before any call.                                              *)

\* The cache is shared with other clients of the same layout: refs/main may
\* be there already, with a trailing newline or with something else in it.
InitialRefs == {<<>>, RevMain :> ShaNewline, RevMain :> ShaShort}

InitFs ==
    /\ refs \in InitialRefs
    /\ blobs = <<>>
    /\ snaps = <<>>
    /\ returned = <<>>
    /\ last = NoCall
    /\ probe = NoProbe
    /\ race = NoRace

\* A caller starts an authGet call, with or without a token.
FetchStart ==
    /\ \E token \in BOOLEAN : fetch' = AuthGetStart(token)
    /\ UNCHANGED <<refs, blobs, snaps, returned, last, probe, tokenFile, race>>

\* The call in progress sends its next request and the server answers.
FetchAttempt ==
    /\ ~fetch.done
    /\ \E answer \in Answers : fetch' = AuthGetStep(fetch, answer)
    /\ UNCHANGED <<refs, blobs, snaps, returned, last, probe, tokenFile, race>>

InitFetch ==
    /\ InitFs
    /\ refs = <<>>
    /\ tokenFile = Absent
    /\ \E token \in BOOLEAN : fetch = AuthGetStart(token)

NextFetch == FetchStart \/ FetchAttempt

SpecFetch == InitFetch /\ [][NextFetch]_vars

Init == InitFs /\ tokenFile = Absent /\ fetch = AuthGetStart(FALSE)

Next == EnsureFileCall \/ EnsureSnapshotCall

Spec == Init /\ [][Next]_vars

\* The calls observed with the answer of the remote, on a cache whose
\* refs/main is there.
InitInfo == Init /\ refs = (RevMain :> ShaNewline)

NextInfo == GetFileInfoCall \/ EnsureFileProbe

SpecInfo == InitInfo /\ [][NextInfo]_vars

\* The calls of GetModelInfo.
NextMeta == GetModelInfoCall

InitMeta == Init /\ refs = <<>>

SpecMeta == InitMeta /\ [][NextMeta]_vars

\* The calls of EnsureSnapshot with their glob argument.
NextSnapshot == EnsureSnapshotGlobCall

SpecSnapshot == Init /\ [][NextSnapshot]_vars

\* The calls on references.
NextRef == MakePackedFileRefCall \/ ValidateCall

InitRef == Init /\ refs = <<>>

SpecRef == InitRef /\ [][NextRef]_vars

\* The calls of New; the token file may be there before the first of them,
\* written by another program.
InitNew ==
    /\ InitFs
    /\ refs = <<>>
    /\ fetch = AuthGetStart(FALSE)
    /\ tokenFile \in {Absent} \cup (Tokens \ {TokenPrefix})

NextNew == NewCall

SpecNew == InitNew /\ [][NextNew]_vars

-----------------------------------------------------------------------------
(* EnsureFile and resolveCommit step by step, run by several processes on  *)
(* one file of one revision of one repository: each system call and each  *)
(* request is a step, and the steps of the processes interleave.          *)

NumProcs == 2
Procs == 1..NumProcs
\* The chunks io.Copy writes to the blob, one Write each.
Chunks == 2

\* A blob whose every chunk is written.
FullBlob(b) == b # Absent /\ Len(b) = Chunks /\ \A k \in 1..Chunks : b[k] = "data"

\* f.Write of chunk k at the offset of the writer's own descriptor.
WriteChunk(b, k) ==
    [x \in 1..(IF Len(b) > k THEN Len(b) ELSE k) |->
        IF x = k THEN "data" ELSE IF x <= Len(b) THEN b[x] ELSE "hole"]

\* The snapshot directory of the commit, as the handlers of the cache see it.
RaceSnaps(r, commit) ==
    IF r.link THEN (<<commit, r.file>> :> [blob |-> "blob"]) ELSE <<>>
RaceBlobs(r) == IF r.blob = Absent THEN <<>> ELSE ("blob" :> "present")

RaceProc(h) ==
    [pc |-> "readRef", healthy |-> h, after |-> FALSE, commit |-> NoString,
     off |-> 0, res |-> "none", path |-> NoPath, linked |-> FALSE]

\* The cache is cold; a process that is not healthy may see its requests and
\* its copy fail.
InitRace ==
    /\ refs = <<>>
    /\ blobs = <<>>
    /\ snaps = <<>>
    /\ returned = <<>>
    /\ last = NoCall
    /\ probe = NoProbe
    /\ tokenFile = Absent
    /\ fetch = AuthGetStart(FALSE)
    /\ race \in {[op |-> op, file |-> file, ref |-> Absent, blob |-> Absent, link |-> FALSE,
                  p |-> [i \in Procs |-> RaceProc(h[i])]]
                 : op \in {"EnsureFile", "resolveCommit"}, file \in {FileW, FileNested},
                   h \in [Procs -> BOOLEAN]}

RaceSet(i, st) ==
    /\ race' = [race EXCEPT !.p[i] = st]
RaceDone(st, res, path) == [st EXCEPT !.pc = "done", !.res = res, !.path = path]
\* resolveCommit returned the commit c.
RaceResolved(st, c) ==
    IF race.op = "resolveCommit"
    THEN [RaceDone(st, "ok", NoPath) EXCEPT !.commit = c]
    ELSE [st EXCEPT !.pc = "stat", !.commit = c]
RaceFrame == UNCHANGED <<refs, blobs, snaps, returned, last, fetch, probe, tokenFile>>

\* os.ReadFile(cmtPath), TrimSpace and reSHA1.
ReadRefStep(i) ==
    LET st == [race.p[i] EXCEPT !.after = \A j \in Procs \ {i} : race.p[j].pc = "done"]
    IN  /\ race.p[i].pc = "readRef"
        /\ IF ~ResolveFromCache(<<>>, RevMain, race.ref)
           THEN RaceSet(i, [st EXCEPT !.pc = "getModelInfo"])
           ELSE LET c == RefContent(race.ref)
                IN  IF ~reSHA1(c) THEN RaceSet(i, RaceDone(st, "err", NoPath))
                    ELSE RaceSet(i, RaceResolved(st, c))
        /\ RaceFrame

\* c.GetModelInfo(ctx, m, commitish) and reSHA1 on m.SHA.
GetModelInfoStep(i) ==
    LET st == race.p[i]
    IN  /\ st.pc = "getModelInfo"
        /\ \/ RaceSet(i, [st EXCEPT !.pc = "openRef", !.commit = CommitOf(1)])
           \/ ~st.healthy /\ RaceSet(i, RaceDone(st, "err", NoPath))
        /\ RaceFrame

\* os.WriteFile(cmtPath, ...): the open with O_CREATE and O_TRUNC.
OpenRefStep(i) ==
    LET st == race.p[i]
    IN  /\ st.pc = "openRef"
        /\ race' = [race EXCEPT !.ref = <<>>, !.p[i] = [st EXCEPT !.pc = "writeRef"]]
        /\ RaceFrame

\* os.WriteFile(cmtPath, ...): the write of m.SHA, and the close.
WriteRefStep(i) ==
    LET st == race.p[i]
    IN  /\ st.pc = "writeRef"
        /\ race' = [race EXCEPT !.ref = st.commit, !.p[i] = RaceResolved(st, st.commit)]
        /\ RaceFrame

\* os.MkdirAll(snapshotDir) and os.Stat(ln).
StatStep(i) ==
    LET st == race.p[i]
    IN  /\ st.pc = "stat"
        /\ IF SnapshotHit(RaceSnaps(race, st.commit), RaceBlobs(race), st.commit, race.file)
           THEN RaceSet(i, RaceDone(st, "ok", [commit |-> st.commit, file |-> race.file]))
           ELSE RaceSet(i, [st EXCEPT !.pc = "head"])
        /\ RaceFrame

\* c.GetFileInfo(ctx, ref).
HeadStep(i) ==
    LET st == race.p[i]
    IN  /\ st.pc = "head"
        /\ \/ RaceSet(i, [st EXCEPT !.pc = "get"])
           \/ ~st.healthy /\ RaceSet(i, RaceDone(st, "err", NoPath))
        /\ RaceFrame

\* DownloadFile: authGet(ctx, http.DefaultClient, "GET", url, token, nil).
GetStep(i) ==
    LET st == race.p[i]
    IN  /\ st.pc = "get"
        /\ \/ RaceSet(i, [st EXCEPT !.pc = "open"])
           \/ ~st.healthy /\ RaceSet(i, RaceDone(st, "err", NoPath))
        /\ RaceFrame

\* DownloadFile: os.OpenFile(dst, O_CREATE|O_WRONLY|O_TRUNC).
OpenBlobStep(i) ==
    LET st == race.p[i]
    IN  /\ st.pc = "open"
        /\ race' = [race EXCEPT !.blob = <<>>, !.p[i] = [st EXCEPT !.pc = "copy", !.off = 0]]
        /\ RaceFrame

\* DownloadFile: io.Copy(f, resp.Body), one chunk, or the end of the body.
CopyStep(i) ==
    LET st == race.p[i]
    IN  /\ st.pc = "copy"
        /\ \/ /\ st.off < Chunks
              /\ race' = [race EXCEPT !.blob = WriteChunk(race.blob, st.off + 1),
                                      !.p[i] = [st EXCEPT !.off = st.off + 1]]
           \/ /\ st.off = Chunks
              /\ RaceSet(i, [st EXCEPT !.pc = "symlink"])
           \/ /\ st.off < Chunks
              /\ ~st.healthy
              /\ RaceSet(i, RaceDone(st, "err", NoPath))
        /\ RaceFrame

\* os.Symlink(rel, ln).
SymlinkStep(i) ==
    LET st == race.p[i]
    IN  /\ st.pc = "symlink"
        /\ IF ~SymlinkOk(RaceSnaps(race, st.commit), st.commit, race.file)
           THEN RaceSet(i, RaceDone(st, "err", NoPath))
           ELSE race' = [race EXCEPT !.link = TRUE,
                                     !.p[i] = [RaceDone(st, "ok", [commit |-> st.commit,
                                                                   file |-> race.file])
                                               EXCEPT !.linked = TRUE]]
        /\ RaceFrame

ReadRefAny == \E i \in Procs : ReadRefStep(i)
GetModelInfoAny == \E i \in Procs : GetModelInfoStep(i)
OpenRefAny == \E i \in Procs : OpenRefStep(i)
WriteRefAny == \E i \in Procs : WriteRefStep(i)
StatAny == \E i \in Procs : StatStep(i)
HeadAny == \E i \in Procs : HeadStep(i)
GetAny == \E i \in Procs : GetStep(i)
OpenBlobAny == \E i \in Procs : OpenBlobStep(i)
CopyAny == \E i \in Procs : CopyStep(i)
SymlinkAny == \E i \in Procs : SymlinkStep(i)

NextRace ==
    \/ ReadRefAny \/ GetModelInfoAny \/ OpenRefAny \/ WriteRefAny \/ StatAny
    \/ HeadAny \/ GetAny \/ OpenBlobAny \/ CopyAny \/ SymlinkAny

SpecRace == InitRace /\ [][NextRace]_vars

-----------------------------------------------------------------------------
(* Properties of the cache, under Spec.                                    *)

ColdOk == last.op # "none" /\ last.refBefore = Absent /\ last.rc.res = "ok"

\* C1: an EnsureFile call for a reference that an earlier EnsureFile call
\* succeeded for returns the path that call returned, without error and
\* without any HTTP request (no metadata GET, no HEAD, no content GET).
C1_EnsureFileIdempotent ==
    (last.op = "EnsureFile" /\ last.prior # NoPath)
        => /\ last.res = "ok"
           /\ last.path = last.prior
           /\ last.rc.nMeta + last.nHead + last.nGet = 0

\* C1 witness: a second call for a downloaded file returned the first path.
C1_Witness ==
    /\ last.op = "EnsureFile"
    /\ last.prior # NoPath
    /\ last.path = last.prior
    /\ last.path.file = FileW
    /\ <<last.path.commit, FileW>> \in DOMAIN snaps

\* C2 (as claimed): a blob file that exists is never changed by a later call.
C2_BlobStoreAppendOnly ==
    [][\A t \in DOMAIN blobs : t \in DOMAIN blobs' /\ blobs'[t] = blobs[t]]_vars

\* C3: two snapshot entries of one file at two different commits whose probes
\* reported the same etag point to the same blob, which exists, and no other
\* blob file was made for that etag.
C3_Dedup ==
    \A e1 \in DOMAIN snaps, e2 \in DOMAIN snaps :
        (e1[1] # e2[1] /\ e1[2] = e2[2] /\ snaps[e1].etag = snaps[e2].etag)
            => /\ snaps[e1].blob = snaps[e2].blob
               /\ BlobState(blobs, snaps[e1].blob) # "absent"
               /\ Cardinality({snaps[e].blob : e \in {x \in DOMAIN snaps :
                                   snaps[x].etag = snaps[e1].etag}}) = 1

\* C3 witness: the file is in the snapshots of two commits with one etag.
C3_Witness ==
    \E e1 \in DOMAIN snaps, e2 \in DOMAIN snaps :
        /\ e1[1] # e2[1]
        /\ e1[2] = e2[2]
        /\ snaps[e1].etag = snaps[e2].etag
        /\ Cardinality(DOMAIN blobs) = 1

\* C4: when refs/<revision> exists and its trimmed content has the shape of a
\* commit id, resolveCommit returns that content, no metadata, and issues no
\* request.
C4_RevisionCacheHit ==
    (last.op # "none" /\ last.refBefore # Absent /\ reSHA1(TrimSpace(last.refBefore)))
        => /\ last.rc.res = "ok"
           /\ last.rc.commit = TrimSpace(last.refBefore)
           /\ ~last.rc.meta
           /\ last.rc.metaCalls = 0
           /\ last.rc.nMeta = 0

\* C4 witness: a revision resolved from a ref file that ends in a newline.
C4_Witness ==
    /\ last.op # "none"
    /\ last.refBefore = ShaNewline
    /\ last.rc.res = "ok"
    /\ last.rc.commit = CommitOf(1)

\* C5 (as claimed): a cold resolution that succeeds has issued exactly one
\* metadata request and left the commit it returns in refs/<revision>.
C5_ColdResolutionOneRequest ==
    ColdOk => /\ last.rc.nMeta = 1
              /\ last.rc.meta
              /\ ReadRef(refs, last.rev) = last.rc.commit

\* C5 (amended): a cold resolution that succeeds has made exactly one call of
\* GetModelInfo, which issued between 1 and 10 requests, returns the metadata
\* and a well-shaped commit id, and left that commit id in refs/<revision>;
\* a cold resolution that fails leaves no refs/<revision>.
C5_ColdResolutionPersists ==
    /\ ColdOk => /\ last.rc.metaCalls = 1
                 /\ last.rc.nMeta \in 1..10
                 /\ last.rc.meta
                 /\ Len(last.rc.commit) = 40
                 /\ ReadRef(refs, last.rev) = last.rc.commit
    /\ (last.op # "none" /\ last.refBefore = Absent /\ last.rc.res # "ok")
           => ReadRef(refs, last.rev) = Absent

\* C5 witness: a cold resolution succeeded after one retried request.
C5_Witness == ColdOk /\ last.rc.nMeta = 2 /\ ReadRef(refs, last.rev) = last.rc.commit

\* C6: a ref file that exists keeps its content in every step, and every
\* resolution of its revision that succeeds returns that content, trimmed.
C6_RefPointerImmutable ==
    [][\A rev \in DOMAIN refs :
          /\ rev \in DOMAIN refs'
          /\ refs'[rev] = refs[rev]
          /\ (last'.op # "none" /\ last'.rev = rev /\ last'.rc.res = "ok")
                 => last'.rc.commit = TrimSpace(refs[rev])]_vars

\* C6 witness: a revision whose ref file the program wrote was resolved again.
C6_Witness ==
    /\ last.op # "none"
    /\ last.rc.res = "ok"
    /\ ~last.rc.meta
    /\ last.refBefore = last.rc.commit
    /\ last.rev = RevDev

\* The shape ^[a-f0-9]{40}$ of the claim, and ^[a-fA-F0-9]{40}$.
LowerHex40(s) == Len(s) = 40 /\ \A k \in 1..Len(s) : s[k] \in HexLower \cup Digits
AnyCaseHex40(s) == Len(s) = 40 /\ \A k \in 1..Len(s) : s[k] \in HexLower \cup HexUpper \cup Digits

\* C10 (as claimed): every commit id resolveCommit returns, and every content
\* it writes to a ref file, is 40 lower-case hexadecimal characters.
C10_CommitIdLowerCase ==
    /\ last.rc.res = "ok" => LowerHex40(last.rc.commit)
    /\ ColdOk => LowerHex40(ReadRef(refs, last.rev))

\* C10 (amended): every commit id resolveCommit returns, and every content it
\* writes to a ref file, is 40 hexadecimal characters of either case.
C10_CommitIdShape ==
    /\ last.rc.res = "ok" => AnyCaseHex40(last.rc.commit)
    /\ ColdOk => AnyCaseHex40(ReadRef(refs, last.rev))

\* C10 witness: a commit id with an upper-case digit was returned and written.
C10_Witness ==
    /\ ColdOk
    /\ last.rc.commit = ShaUpper
    /\ ReadRef(refs, last.rev) = ShaUpper

-----------------------------------------------------------------------------
(* Properties of authGet, under SpecFetch.                                 *)

Triangle(k) == (k * (k + 1)) \div 2

\* C7: a call issues at most 10 requests, and one whose 10 requests were all
\* answered 429 or 5xx has returned the error of exhausted retries.
C7_RetryBound ==
    /\ fetch.requests <= 10
    /\ (fetch.retried = 10) => (fetch.done /\ fetch.res = "err_retrying" /\ fetch.requests = 10)
    /\ fetch.res = "err_retrying" => fetch.retried = 10

\* C7 witness: ten retryable answers.
C7_Witness == fetch.requests = 10 /\ fetch.retried = 10 /\ fetch.res = "err_retrying"

\* C8: after k retryable answers the call has slept 1 + 2 + ... + k seconds,
\* and a call that succeeds does so on the answer below 400 of request k + 1.
C8_LinearBackoff ==
    /\ fetch.i = fetch.retried
    /\ fetch.slept = Triangle(fetch.retried)
    /\ fetch.res = "ok" => /\ fetch.status \in 1..399
                           /\ fetch.retried < 10
                           /\ fetch.requests = fetch.retried + 1

\* C8 witness: two 503 (or 429) answers and then success, 3 seconds slept.
C8_Witness ==
    fetch.res = "ok" /\ fetch.retried = 2 /\ fetch.requests = 3 /\ fetch.slept = 3

\* C9: an answer of 401, or of 400..499 other than 429, ends the call with an
\* error at once: that request was the last, nothing was slept for it, and
\* the error of a 401 depends on whether a token was given.
C9_NonRetryable ==
    (fetch.requests > 0 /\ fetch.status \in 400..499 /\ fetch.status # 429)
        => /\ fetch.done
           /\ fetch.requests = fetch.retried + 1
           /\ fetch.slept = Triangle(fetch.retried)
           /\ fetch.res = (IF fetch.status # 401 THEN "err_status"
                           ELSE IF fetch.token THEN "err401_check_token"
                           ELSE "err401_token_required")

\* C9 witness: a 404 after one retried answer.
C9_Witness == fetch.status = 404 /\ fetch.retried = 1 /\ fetch.done

-----------------------------------------------------------------------------
(* Properties of GetFileInfo and of what EnsureFile makes of it, under     *)
(* SpecInfo.                                                               *)

\* The etag of the answer as GetFileInfo reads it: X-Linked-Etag, else Etag,
\* without the weak prefix and the quotes around it.
StrippedTag(hdr) ==
    Trim(TrimPrefix(IF hdr.linkedEtag # NoString THEN hdr.linkedEtag ELSE hdr.etag,
                    <<"W", "/">>), {"\""})

\* The shape ^[a-f0-9]{64}$ of the claim, and ^[a-fA-F0-9]{64}$.
LowerHex64(s) == Len(s) = 64 /\ \A k \in 1..Len(s) : s[k] \in HexLower \cup Digits
AnyCaseHex64(s) == Len(s) = 64 /\ \A k \in 1..Len(s) : s[k] \in HexLower \cup HexUpper \cup Digits

Probed == probe.op \in {"GetFileInfo", "EnsureFile"}

\* C11 (as claimed): GetFileInfo succeeds only with an etag of 64 lower-case
\* hexadecimal characters, and every file in blobs/ has such a name.
C11_TagShapeLowerCase ==
    /\ (Probed /\ probe.out.res = "ok") => LowerHex64(probe.out.etag)
    /\ \A t \in DOMAIN blobs : LowerHex64(t)

\* C11 (amended): GetFileInfo succeeds only if the stripped etag of the answer
\* is 64 hexadecimal characters of either case, and returns it; an EnsureFile
\* call whose GetFileInfo fails changes neither blobs/ nor snapshots/; every
\* file in blobs/ and every blob a snapshot entry points to has a name of 64
\* hexadecimal characters of either case.
C11_TagShape ==
    /\ [](Probed => /\ probe.out.res = "ok" => /\ AnyCaseHex64(probe.out.etag)
                                               /\ probe.out.etag = StrippedTag(probe.hdr)
                    /\ ~AnyCaseHex64(StrippedTag(probe.hdr)) => probe.out.res # "ok")
    /\ [](\A t \in DOMAIN blobs : AnyCaseHex64(t))
    /\ [](\A e \in DOMAIN snaps : AnyCaseHex64(snaps[e].blob))
    /\ [][(probe'.op = "EnsureFile" /\ probe'.out.res # "ok")
              => (blobs' = blobs /\ snaps' = snaps)]_vars

\* C11 witness: an EnsureFile call failed on an etag one character short,
\* after another one made a blob with an upper-case name.
C11_Witness ==
    /\ probe.op = "EnsureFile"
    /\ StrippedTag(probe.hdr) = TagShort
    /\ probe.out.requests = 1
    /\ probe.out.res = "err"
    /\ DOMAIN blobs = {TagUpper}
    /\ Cardinality(DOMAIN snaps) = 1

\* A string that reads as a non-negative integer.
NonNegativeInteger(s) ==
    LET d == IF s # <<>> /\ Head(s) = "+" THEN Tail(s) ELSE s
    IN  d # <<>> /\ \A k \in 1..Len(d) : d[k] \in Digits

SizeHeader(hdr) == IF hdr.linkedSize # NoString THEN hdr.linkedSize ELSE hdr.contentLength

\* C12 (as claimed): GetFileInfo fails without X-Repo-Commit, without both
\* X-Linked-Size and Content-Length, and when the size header it takes is not
\* a non-negative integer; a size it returns is at least 0.
C12_RequiredHeaders ==
    Probed =>
        /\ probe.hdr.commit = NoString => probe.out.res # "ok"
        /\ (probe.hdr.linkedSize = NoString /\ probe.hdr.contentLength = NoString)
               => probe.out.res # "ok"
        /\ ~NonNegativeInteger(SizeHeader(probe.hdr)) => probe.out.res # "ok"
        /\ probe.out.res = "ok" => probe.out.size >= 0

-----------------------------------------------------------------------------
(* Properties of GetModelInfo, under SpecMeta.                             *)

\* C13 (as claimed): a client as New makes it accepts a metadata response
\* with a field it does not know: GetModelInfo returns without error.
C13_UnknownFieldAccepted ==
    (probe.op = "GetModelInfo" /\ probe.fetched /\ probe.body.unknown)
        => probe.res = "ok"

Max(S) == CHOOSE x \in S : \A y \in S : y <= x

ParameterValues(r) == {r.parameters[k] : k \in DOMAIN r.parameters}

\* C14: a successful GetModelInfo on a zero-valued Model leaves in Files the
\* rfilename of the siblings, in their order and number; in NumWeights the
\* largest value of safetensors.parameters and in TensorType a key that has
\* that value, when a value is positive; and in NumWeights safetensors.total
\* when none is.
C14_ModelFilled ==
    (probe.op = "GetModelInfo" /\ probe.before = ZeroModel /\ probe.res = "ok")
        => LET r == probe.body
               m == probe.m
           IN  /\ Len(m.files) = Len(r.siblings)
               /\ \A i \in 1..Len(r.siblings) : m.files[i] = r.siblings[i].rfilename
               /\ (\E v \in ParameterValues(r) : v > 0)
                      => /\ m.numWeights = Max(ParameterValues(r))
                         /\ m.tensorType \in DOMAIN r.parameters
                         /\ r.parameters[m.tensorType] = m.numWeights
               /\ (\A v \in ParameterValues(r) : v <= 0) => m.numWeights = r.total

\* C14 witness: three tensor types, the largest neither first nor last in
\* the response, and three siblings.
C14_Witness ==
    /\ probe.op = "GetModelInfo"
    /\ probe.before = ZeroModel
    /\ probe.res = "ok"
    /\ Cardinality(DOMAIN probe.body.parameters) = 3
    /\ probe.m.tensorType = "F32"
    /\ probe.m.numWeights = 7
    /\ Len(probe.m.files) = 3

-----------------------------------------------------------------------------
(* Properties of references, under SpecRef, and of New, under SpecNew.     *)

\* C15: the accessors of MakePackedFileRef(author, repo, revision, file)
\* return author, repo, revision, file and author/repo, when author, repo and
\* revision hold no slash.
C15_RefRoundTrip ==
    probe.op = "MakePackedFileRef"
        => /\ probe.got.author = probe.author
           /\ probe.got.repo = probe.repo
           /\ probe.got.commitish = probe.revision
           /\ probe.got.basename = probe.file
           /\ probe.got.repoID = probe.author \o <<"/">> \o probe.repo

\* C15 witness: a reference with a file in a directory and an author that
\* reads like the prefix.
C15_Witness ==
    /\ probe.op = "MakePackedFileRef"
    /\ probe.author = HfPrefix
    /\ probe.got.author = HfPrefix
    /\ probe.got.basename = <<"d", "i", "r", "/", "w", "g", "t">>
    /\ probe.got.commitish = RevMain

\* A well-formed file reference: hf:<owner>/<name>/<revision>/<path...> with
\* owner and name of 3 characters or more and a revision that is not empty.
WellFormed(p) ==
    /\ Len(p) >= 3
    /\ SubSeq(p, 1, 3) = <<"h", "f", ":">>
    /\ LET parts == Split(SubSeq(p, 4, Len(p)), "/")
       IN  /\ Len(parts) >= 4
           /\ Len(parts[1]) >= 3
           /\ Len(parts[2]) >= 3
           /\ Len(parts[3]) >= 1

\* C16 (as claimed): Validate returns nil for every well-formed file
\* reference, and for no other string.
C16_ValidateExact ==
    probe.op = "Validate" => (probe.res = "ok" <=> WellFormed(probe.ref))

\* C17 (as claimed): on a malformed reference Validate returns an error (it
\* does not crash), and no accessor of a string that fails validation returns
\* a component that is not empty.
C17_MalformedRejected ==
    probe.op = "Validate"
        => /\ ~WellFormed(probe.ref) => probe.res = "err"
           /\ probe.res # "ok"
                  => \A f \in DOMAIN probe.got : probe.got[f] = NoString

\* The token New goes by: the argument, else HF_TOKEN, else the token file
\* without the white space around it.
EffectiveToken(arg, env, file) ==
    IF arg # NoString THEN arg
    ELSE IF env # NoString THEN env
    ELSE IF file # Absent THEN TrimSpace(file)
    ELSE NoString

StartsWithHf(t) == Len(t) >= 3 /\ t[1] = "h" /\ t[2] = "f" /\ t[3] = "_"

\* C18: New returns an error and no client when the token it goes by is not
\* empty and does not start with "hf_"; the token of a client it returns is
\* that token, and is empty or starts with "hf_".
C18_TokenPrefix ==
    probe.op = "New"
        => LET t == EffectiveToken(probe.arg, probe.env, probe.fileBefore)
           IN  /\ (t # NoString /\ ~StartsWithHf(t))
                      => (probe.res = "err" /\ probe.token = NoString)
               /\ probe.res = "ok"
                      => (probe.token = t /\ (t = NoString \/ StartsWithHf(t)))

\* C18 witness: New refused the token of a file that another call wrote,
\* and one that HF_TOKEN holds behind a space.
C18_Witness ==
    /\ probe.op = "New"
    /\ probe.arg = NoString
    /\ probe.env = NoString
    /\ probe.fileBefore = <<"a", "b", "c">>
    /\ probe.res = "err"

-----------------------------------------------------------------------------
(* Properties of EnsureSnapshot, under SpecSnapshot.                       *)

\* A pattern that is an absolute path or has a segment "..".
BadPattern(pattern) ==
    \/ (pattern # <<>> /\ pattern[1] = "/")
    \/ \E i \in 1..Len(Split(pattern, "/")) : Split(pattern, "/")[i] = <<".", ".">>

BadGlob(glob) == \E i \in 1..Len(glob) : BadPattern(glob[i])

\* C19 (as claimed): EnsureSnapshot with a pattern that is an absolute path
\* or climbs to a parent directory returns an error without having issued a
\* request, also when refs/<revision> is not there.
C19_PatternRejectedFirst ==
    (probe.op = "EnsureSnapshot" /\ BadGlob(probe.glob))
        => /\ last.res # "ok"
           /\ last.rc.nMeta + last.nHead + last.nGet = 0

\* C20 (as claimed): when the revision resolves (and files are wanted and
\* every fetch succeeds), EnsureSnapshot returns without error one path for
\* each file wanted, so a list that is not empty.
C20_SnapshotReturnsPaths ==
    (probe.op = "EnsureSnapshot" /\ ~BadGlob(probe.glob) /\ last.rc.res = "ok")
        => /\ last.res = "ok"
           /\ Len(probe.paths) >= 1

-----------------------------------------------------------------------------
(* Properties of the cache after failures, under Spec.                     *)

\* C24 (as claimed): every snapshot entry points to a blob file that exists
\* and holds the complete content, whatever calls succeeded or failed.
C24_SnapshotEntriesComplete ==
    \A e \in DOMAIN snaps : BlobState(blobs, snaps[e].blob) = "complete"

-----------------------------------------------------------------------------
(* Properties of failures of authGet, New and GetModelInfo.                *)

\* C26 (as claimed), under SpecFetch: when the transport gives no response
\* to an attempt, authGet ends by returning an error to its caller.
C26_TransportFailureReturned ==
    (fetch.requests > 0 /\ fetch.status = NoResponse)
        => /\ fetch.done
           /\ fetch.res \in {"err401_check_token", "err401_token_required",
                              "err_status", "err_retrying"}

\* C27 (as claimed), under SpecNew: a call of New that fails on the prefix
\* of its token leaves the token file as it was.
C27_FailedNewPersistsNothing ==
    (/\ probe.op = "New"
     /\ probe.res = "err"
     /\ EffectiveToken(probe.arg, probe.env, probe.fileBefore) # NoString
     /\ ~StartsWithHf(EffectiveToken(probe.arg, probe.env, probe.fileBefore)))
        => tokenFile = probe.fileBefore

\* What a response leaves in a Model that had nothing in it, the range loop
\* taking the keys in some order.
FreshModels(r) == {FillModel(ZeroModel, r, order) : order \in Orders(DOMAIN r.parameters)}

\* C28 (as claimed), under SpecMeta: after a successful GetModelInfo the
\* Model is what the response alone gives, whatever it held before; after a
\* failed one it is what it was.
C28_ModelFresh ==
    probe.op = "GetModelInfo"
        => /\ probe.res = "ok" => probe.m \in FreshModels(probe.body)
           /\ probe.res # "ok" => probe.m = probe.before

-----------------------------------------------------------------------------
(* Properties of concurrent and of repeated calls, under SpecRace.         *)

AllDone == \A i \in Procs : race.p[i].pc = "done"
AllHealthy == \A i \in Procs : race.p[i].healthy

\* C23: when the processes call resolveCommit for the same revision on a cold
\* cache, the remote healthy and reporting one commit, every call returns that
\* commit without error and the ref file finally holds exactly that commit.
C23_ColdResolveBenign ==
    (race.op = "resolveCommit" /\ AllHealthy /\ AllDone)
        => /\ \A i \in Procs : race.p[i].res = "ok" /\ race.p[i].commit = CommitOf(1)
           /\ race.ref = CommitOf(1)

\* C22: when the processes run EnsureFile for the same file on a cold cache,
\* the remote healthy, every call returns without error and with the same
\* path, and the snapshot entry finally leads to a blob with the complete
\* content; also when every process resolved the commit.
C22_ColdEnsureFileBenign ==
    (/\ race.op = "EnsureFile" /\ race.file = FileW /\ AllHealthy /\ AllDone
     /\ \A i \in Procs : race.p[i].commit = CommitOf(1))
        => /\ \A i \in Procs : /\ race.p[i].res = "ok"
                               /\ race.p[i].path = [commit |-> CommitOf(1), file |-> FileW]
           /\ race.link
           /\ FullBlob(race.blob)

\* C25: an EnsureFile call that fails returns the empty path and makes no
\* snapshot entry; and an EnsureFile call for the same reference that starts
\* after a failed call ended, the remote healthy, returns without error a path
\* that leads to the complete content.
C25_FailureRecoverable ==
    race.op = "EnsureFile"
        => /\ \A i \in Procs : race.p[i].res = "err"
                => race.p[i].path = NoPath /\ ~race.p[i].linked
           /\ \A i \in Procs :
                (/\ race.p[i].pc = "done" /\ race.p[i].after /\ race.p[i].healthy
                 /\ \E j \in Procs \ {i} : race.p[j].res = "err")
                    => /\ race.p[i].res = "ok"
                       /\ race.p[i].path = [commit |-> CommitOf(1), file |-> race.file]
                       /\ race.link
                       /\ FullBlob(race.blob)

=============================================================================
